---- MODULE Spec2Model ----
(***************************************************************************)
(* Model of lucida-sync: the RateLimiter of lucida_client.py (sliding      *)
(* windows, minimum spacing, exponential backoff) and the worker pool of   *)
(* lucida_sync.py (semaphore of 3, search/download retry loops).           *)
(* Time is counted in whole seconds.                                       *)
(***************************************************************************)
EXTENDS Integers, Sequences, FiniteSets, TLC

VARIABLES
    cfg,        \* the arguments RateLimiter.__init__ was called with
    rl,         \* the RateLimiter object's fields
    now,        \* time.time()
    lastOp,     \* the RateLimiter method that returned last
    pre,        \* rl as it was when the last wait() was entered
    ret,        \* current_time after each stage of the last wait()
    reports,    \* record_success / record_error calls made so far, in order
    snapshot,   \* the dict the last get_stats() returned
    calls,      \* number of RateLimiter method calls made so far
    admitted,   \* every timestamp wait() has recorded, evicted ones included
    running,    \* the coroutine the event loop is running (0: none)
    wpc,        \* where each coroutine calling the limiter stands
    cur,        \* each calling coroutine's current_time (0 outside wait())
    tracks,     \* len(tracks) of the playlist being synced
    semaphore,  \* value of asyncio.Semaphore(3)
    pc,         \* where each process_track_async task stands
    attempt,    \* each task's loop variable
    amazon_url, \* each task's amazon_url is not None
    page,       \* each task's page is open
    status,     \* what each task printed about its track
    searches,   \* results of each task's get_direct_amazon_link_async calls
    downloads,  \* results of each task's download_track calls
    pauses,     \* asyncio.sleep(2) calls each task completed, per loop
    failures,   \* failed or raising external operations so far
    holders,    \* the tasks inside async with semaphore
    driver      \* where sync_playlist_async stands with its gather

limiterVars == <<cfg, rl, now, lastOp, pre, ret, reports, snapshot, calls,
                 admitted, running, wpc, cur>>
callerVars == <<running, wpc, cur>>
syncVars == <<tracks, semaphore, pc, attempt, amazon_url, page, status,
              searches, downloads, pauses, failures, holders, driver>>
vars == <<limiterVars, syncVars>>

----------------------------------------------------------------------------
(* Bounds of the model *)
MaxPerMinute == 2      \* largest requests_per_minute tried
MaxPerHour   == 3      \* largest requests_per_hour tried
MaxCalls     == 4      \* method calls per behaviour
StartTime    == 5000   \* time.time() at construction
MinDelays    == {0, 2, 150}
Gaps         == {0, 59, 3600}      \* time elapsing between two calls
Jitter       == {0, 1}             \* time.sleep() may return late
MaxTracks    == 4      \* largest playlist synced
MaxFailures  == 3      \* external operations that fail or raise per sync
MaxCallers   == 2      \* coroutines sharing one limiter

(* Program constants *)
MinuteWindow == 60
HourWindow   == 3600
DefaultMaxBackoff == 300
Slots == 3              \* asyncio.Semaphore(3)
SearchTries == 3        \* for attempt in range(3)
DownloadTries == 2      \* for attempt in range(2)
DefaultPerMinute == 30
DefaultPerHour == 500
ClientMinDelay == 2

Min2(a, b) == IF a < b THEN a ELSE b
Max2(a, b) == IF a > b THEN a ELSE b

RECURSIVE Pow2(_)
Pow2(k) == IF k = 0 THEN 1 ELSE 2 * Pow2(k - 1)

----------------------------------------------------------------------------
(* RateLimiter *)

\* mutant of __init__: the two limits passed in each other's place
RateLimiterInitSwapped(rpm, rph, md) ==
    [ requests_per_minute |-> rph,
      requests_per_hour   |-> rpm,
      min_delay           |-> md,
      maxlen              |-> rpm,
      request_times       |-> << >>,
      last_request_time   |-> 0,
      consecutive_errors  |-> 0,
      max_backoff         |-> DefaultMaxBackoff ]

\* __init__: the fields of a new limiter
RateLimiterInit(rpm, rph, md) ==
    [ requests_per_minute |-> rpm,
      requests_per_hour   |-> rph,
      min_delay           |-> md,
      maxlen              |-> rph,
      request_times       |-> << >>,
      last_request_time   |-> 0,
      consecutive_errors  |-> 0,
      max_backoff         |-> DefaultMaxBackoff ]

\* sum(1 for t in self.request_times if t > cutoff)
CountNewer(times, cutoff) ==
    Cardinality({i \in DOMAIN times : times[i] > cutoff})

\* mutant of the oldest-in-window search: the oldest entry of the whole log
OldestOfAll(times, cutoff) ==
    IF times = << >> THEN cutoff ELSE times[1]

\* min((t for t in self.request_times if t > cutoff), default=cutoff)
OldestNewer(times, cutoff) ==
    LET S == {times[i] : i \in {k \in DOMAIN times : times[k] > cutoff}}
    IN  IF S = {} THEN cutoff ELSE CHOOSE m \in S : \A x \in S : m <= x

\* mutant of the bounded append: a full deque drops its newest entry
DequeAppendDropNewest(q, x, n) ==
    IF n = 0 THEN q
    ELSE IF Len(q) >= n THEN Append(SubSeq(q, 1, Len(q) - 1), x)
    ELSE Append(q, x)

\* deque(maxlen=n).append(x)
DequeAppend(q, x, n) ==
    IF n = 0 THEN q
    ELSE IF Len(q) >= n THEN Append(Tail(q), x)
    ELSE Append(q, x)

\* time.sleep(d) entered at t, returning j late
Sleep(t, d, j) == IF d > 0 THEN t + d + j ELSE t

\* the lateness a time.sleep(d) can have
Late(d) == IF d > 0 THEN Jitter ELSE {0}

\* mutant of step 1: sleeps the time already elapsed, not the remainder
SpacingSleepElapsed(r, t) ==
    LET time_since_last == t - r.last_request_time
    IN  IF time_since_last < r.min_delay
        THEN time_since_last
        ELSE 0

\* step 1 of wait(): sleep_time of the minimum delay between requests
SpacingSleep(r, t) ==
    LET time_since_last == t - r.last_request_time
    IN  IF time_since_last < r.min_delay
        THEN r.min_delay - time_since_last
        ELSE 0

\* mutant of step 2: the window is full only above the limit
MinuteSleepAbove(r, t) ==
    LET one_minute_ago   == t - MinuteWindow
        recent_requests  == CountNewer(r.request_times, one_minute_ago)
        oldest_in_window == OldestNewer(r.request_times, one_minute_ago)
    IN  IF recent_requests > r.requests_per_minute
        THEN MinuteWindow - (t - oldest_in_window) + 1
        ELSE 0

\* mutant of step 2: the second of slack is subtracted twice
MinuteSleepShort(r, t) ==
    LET one_minute_ago   == t - MinuteWindow
        recent_requests  == CountNewer(r.request_times, one_minute_ago)
        oldest_in_window == OldestNewer(r.request_times, one_minute_ago)
    IN  IF recent_requests >= r.requests_per_minute
        THEN MinuteWindow - (t - oldest_in_window) - 1
        ELSE 0

\* step 2 of wait(): wait_time of the per-minute sliding window
MinuteSleep(r, t) ==
    LET one_minute_ago   == t - MinuteWindow
        recent_requests  == CountNewer(r.request_times, one_minute_ago)
        oldest_in_window == OldestNewer(r.request_times, one_minute_ago)
    IN  IF recent_requests >= r.requests_per_minute
        THEN MinuteWindow - (t - oldest_in_window) + 1
        ELSE 0

\* mutant of step 3: the hour is full only above the limit
HourSleepAbove(r, t) ==
    LET one_hour_ago   == t - HourWindow
        hour_requests  == CountNewer(r.request_times, one_hour_ago)
        oldest_in_hour == OldestNewer(r.request_times, one_hour_ago)
    IN  IF hour_requests > r.requests_per_hour
        THEN HourWindow - (t - oldest_in_hour) + 1
        ELSE 0

\* mutant of step 3: the wait is computed with the minute's 60
HourSleepMinuteWait(r, t) ==
    LET one_hour_ago   == t - HourWindow
        hour_requests  == CountNewer(r.request_times, one_hour_ago)
        oldest_in_hour == OldestNewer(r.request_times, one_hour_ago)
    IN  IF hour_requests >= r.requests_per_hour
        THEN MinuteWindow - (t - oldest_in_hour) + 1
        ELSE 0

\* step 3 of wait(): wait_time of the per-hour window
HourSleep(r, t) ==
    LET one_hour_ago   == t - HourWindow
        hour_requests  == CountNewer(r.request_times, one_hour_ago)
        oldest_in_hour == OldestNewer(r.request_times, one_hour_ago)
    IN  IF hour_requests >= r.requests_per_hour
        THEN HourWindow - (t - oldest_in_hour) + 1
        ELSE 0

\* mutant of the backoff: no ceiling
BackoffUncapped(r) == r.min_delay * Pow2(r.consecutive_errors)

\* mutant of the backoff: the first error counts as exponent 0
BackoffFromZero(r) ==
    Min2(r.min_delay * Pow2(r.consecutive_errors - 1), r.max_backoff)

\* mutant of the backoff: a base of at least one second
BackoffFloored(r) ==
    Min2(Max2(r.min_delay, 1) * Pow2(r.consecutive_errors), r.max_backoff)

\* the backoff computed in step 4 of wait()
Backoff(r) ==
    Min2(r.min_delay * Pow2(r.consecutive_errors), r.max_backoff)

\* step 4 of wait(): exponential backoff for consecutive errors
BackoffSleep(r) ==
    IF r.consecutive_errors > 0 THEN Backoff(r) ELSE 0

\* current_time after a time.sleep(d) entered at t
Slept(t, d) == { Sleep(t, d, j) : j \in Late(d) }

\* the values current_time can take on entry at t0 and after each of the
\* four stages of wait()
WaitTimes(r, t0) ==
    UNION { UNION { UNION { { <<t0, t1, t2, t3, t4>> :
              t4 \in Slept(t3, BackoffSleep(r)) } :
            t3 \in Slept(t2, HourSleep(r, t2)) } :
          t2 \in Slept(t1, MinuteSleep(r, t1)) } :
        t1 \in Slept(t0, SpacingSleep(r, t0)) }

\* mutant of step 5: the error counter is cleared once its backoff is served
RecordClearingErrors(r, t) ==
    [r EXCEPT !.request_times = DequeAppend(r.request_times, t, r.maxlen),
              !.last_request_time = t,
              !.consecutive_errors = 0]

\* step 5 of wait(): record this request
Record(r, t) ==
    [r EXCEPT !.request_times = DequeAppend(r.request_times, t, r.maxlen),
              !.last_request_time = t]

\* mutant of record_success(): one error is forgiven per success
AfterSuccessDecrement(r) ==
    [r EXCEPT !.consecutive_errors = IF @ > 0 THEN @ - 1 ELSE 0]

\* record_success(): reset the error counter
AfterSuccess(r) == [r EXCEPT !.consecutive_errors = 0]

\* record_error(): increment the error counter
AfterError(r) == [r EXCEPT !.consecutive_errors = @ + 1]

\* mutant of get_stats(): the hour includes the entry that is exactly 3600s old
StatsInclusive(r, t) ==
    [ requests_last_minute |-> CountNewer(r.request_times, t - MinuteWindow),
      requests_last_hour   |-> CountNewer(r.request_times, t - HourWindow - 1),
      consecutive_errors   |-> r.consecutive_errors,
      total_requests       |-> Len(r.request_times) ]

\* get_stats(): the returned dict
Stats(r, t) ==
    [ requests_last_minute |-> CountNewer(r.request_times, t - MinuteWindow),
      requests_last_hour   |-> CountNewer(r.request_times, t - HourWindow),
      consecutive_errors   |-> r.consecutive_errors,
      total_requests       |-> Len(r.request_times) ]

NoStats == [ requests_last_minute |-> 0, requests_last_hour |-> 0,
             consecutive_errors |-> 0, total_requests |-> 0 ]

Configs ==
    [ requests_per_minute : 1..MaxPerMinute,
      requests_per_hour   : 1..MaxPerHour,
      min_delay           : MinDelays ]

\* state of the tasks before sync_playlist_async gathers them
SyncInit(n) ==
    /\ tracks = n
    /\ semaphore = Slots
    /\ pc = [w \in 0..(n - 1) |-> "stagger"]
    /\ attempt = [w \in 0..(n - 1) |-> 0]
    /\ amazon_url = [w \in 0..(n - 1) |-> FALSE]
    /\ page = [w \in 0..(n - 1) |-> FALSE]
    /\ status = [w \in 0..(n - 1) |-> "pending"]
    /\ searches = [w \in 0..(n - 1) |-> << >>]
    /\ downloads = [w \in 0..(n - 1) |-> << >>]
    /\ pauses = [w \in 0..(n - 1) |-> [search |-> 0, download |-> 0]]
    /\ failures = 0
    /\ holders = {}
    /\ driver = "gathering"

\* state of a limiter constructed with configuration c
LimiterInit(c) ==
    /\ cfg = c
    /\ rl = RateLimiterInit(c.requests_per_minute, c.requests_per_hour,
                            c.min_delay)
    /\ now = StartTime
    /\ lastOp = "init"
    /\ pre = rl
    /\ ret = <<now, now, now, now, now>>
    /\ reports = << >>
    /\ snapshot = NoStats
    /\ calls = 0
    /\ admitted = << >>
    /\ running = 0
    /\ wpc = [k \in 1..MaxCallers |-> "idle"]
    /\ cur = [k \in 1..MaxCallers |-> 0]

Init ==
    /\ \E c \in Configs : LimiterInit(c)
    /\ SyncInit(0)

wait ==
    /\ calls < MaxCalls
    /\ \E d \in Gaps : \E ts \in WaitTimes(rl, now + d) :
         /\ ret' = ts
         /\ now' = ts[5]
         /\ rl' = Record(rl, ts[5])
         /\ admitted' = Append(admitted, ts[5])
    /\ pre' = rl
    /\ lastOp' = "wait"
    /\ calls' = calls + 1
    /\ UNCHANGED <<cfg, reports, snapshot, callerVars, syncVars>>

record_success ==
    /\ calls < MaxCalls
    /\ rl' = AfterSuccess(rl)
    /\ reports' = Append(reports, "success")
    /\ lastOp' = "record_success"
    /\ calls' = calls + 1
    /\ UNCHANGED <<cfg, now, pre, ret, snapshot, admitted, callerVars,
                   syncVars>>

record_error ==
    /\ calls < MaxCalls
    /\ rl' = AfterError(rl)
    /\ reports' = Append(reports, "error")
    /\ lastOp' = "record_error"
    /\ calls' = calls + 1
    /\ UNCHANGED <<cfg, now, pre, ret, snapshot, admitted, callerVars,
                   syncVars>>

\* mutant of get_stats(): entries older than an hour are dropped from the log
get_stats_pruning ==
    /\ calls < MaxCalls
    /\ \E d \in Gaps :
         /\ now' = now + d
         /\ snapshot' = Stats(rl, now + d)
         /\ rl' = [rl EXCEPT !.request_times =
                     SelectSeq(@, LAMBDA t : t > now + d - HourWindow)]
    /\ lastOp' = "get_stats"
    /\ calls' = calls + 1
    /\ UNCHANGED <<cfg, pre, ret, reports, admitted, callerVars, syncVars>>

get_stats ==
    /\ calls < MaxCalls
    /\ \E d \in Gaps :
         /\ now' = now + d
         /\ snapshot' = Stats(rl, now + d)
    /\ lastOp' = "get_stats"
    /\ calls' = calls + 1
    /\ UNCHANGED <<cfg, rl, pre, ret, reports, admitted, callerVars,
                   syncVars>>

Next == wait \/ record_success \/ record_error \/ get_stats

Spec == Init /\ [][Next]_vars

----------------------------------------------------------------------------
(* Several coroutines of one event loop calling the same RateLimiter *)

Callers == 1..MaxCallers

\* mutant of the sleeps of wait(): await asyncio.sleep, which suspends
YieldsAlways(call) == TRUE

\* the calls at which a coroutine hands control back to the event loop:
\* wait() sleeps with time.sleep, which blocks the loop's only thread
Yields(call) == call = "await"

\* the event loop can run coroutine c: none is running, or c itself is
CanRun(c) == running \in {0, c}

\* lines 152-154, 47: coroutine c calls _rate_limit() for its one request,
\* wait() reads the clock
call_wait(c) ==
    /\ wpc[c] = "idle"
    /\ CanRun(c)
    /\ \E d \in Gaps :
         /\ now' = now + d
         /\ cur' = [cur EXCEPT ![c] = now + d]
         /\ ret' = <<now + d, now + d, now + d, now + d, now + d>>
    /\ pre' = rl
    /\ wpc' = [wpc EXCEPT ![c] = "spacing"]
    /\ running' = c
    /\ calls' = calls + 1
    /\ UNCHANGED <<cfg, rl, lastOp, reports, snapshot, admitted, syncVars>>

\* stage k of wait() in coroutine c: the sleep of duration d is made at
\* current_time t; the coroutine goes on (at once if time.sleep blocks, when
\* it is resumed otherwise) with the clock read anew
sleep_stage(c, k, stage, next, d, t) ==
    /\ wpc[c] = stage
    /\ CanRun(c)
    /\ \E j \in Late(d) :
         /\ cur' = [cur EXCEPT ![c] = Sleep(t, d, j)]
         /\ ret' = [i \in 1..5 |-> IF i > k THEN Sleep(t, d, j) ELSE ret[i]]
         /\ IF d > 0 /\ Yields("time.sleep")
            THEN /\ now' = t
                 /\ running' = 0
            ELSE /\ now' = Sleep(t, d, j)
                 /\ running' = c
    /\ wpc' = [wpc EXCEPT ![c] = next]
    /\ UNCHANGED <<cfg, rl, lastOp, pre, reports, snapshot, calls, admitted,
                   syncVars>>

\* time.time() as coroutine c reads it when it goes on
Clock(c) == Max2(now, cur[c])

\* lines 49-54
w_spacing(c) ==
    sleep_stage(c, 1, "spacing", "minute", SpacingSleep(rl, Clock(c)), Clock(c))

\* lines 56-68
w_minute(c) ==
    sleep_stage(c, 2, "minute", "hour", MinuteSleep(rl, Clock(c)), Clock(c))

\* lines 70-81
w_hour(c) ==
    sleep_stage(c, 3, "hour", "backoff", HourSleep(rl, Clock(c)), Clock(c))

\* lines 83-94
w_backoff(c) ==
    sleep_stage(c, 4, "backoff", "record", BackoffSleep(rl), Clock(c))

\* lines 96-98: the request is recorded and wait() returns; the coroutine
\* awaits its request
w_record(c) ==
    /\ wpc[c] = "record"
    /\ CanRun(c)
    /\ rl' = Record(rl, Clock(c))
    /\ admitted' = Append(admitted, Clock(c))
    /\ now' = Clock(c)
    /\ cur' = [cur EXCEPT ![c] = 0]
    /\ ret' = [ret EXCEPT ![5] = Clock(c)]
    /\ lastOp' = "wait"
    /\ wpc' = [wpc EXCEPT ![c] = "request"]
    /\ running' = 0
    /\ UNCHANGED <<cfg, pre, reports, snapshot, calls, syncVars>>

\* lines 100-106: the awaited request is over and coroutine c reports it
report(c) ==
    /\ wpc[c] = "request"
    /\ CanRun(c)
    /\ \E ok \in BOOLEAN :
         /\ rl' = IF ok THEN AfterSuccess(rl) ELSE AfterError(rl)
         /\ reports' = Append(reports, IF ok THEN "success" ELSE "error")
         /\ lastOp' = IF ok THEN "record_success" ELSE "record_error"
    /\ wpc' = [wpc EXCEPT ![c] = "reported"]
    /\ running' = 0
    /\ UNCHANGED <<cfg, now, pre, ret, snapshot, calls, admitted, cur,
                   syncVars>>

NextShared ==
    \E c \in Callers :
        \/ call_wait(c)
        \/ w_spacing(c)
        \/ w_minute(c)
        \/ w_hour(c)
        \/ w_backoff(c)
        \/ w_record(c)
        \/ report(c)

SpecShared == Init /\ [][NextShared]_vars

\* the limiter constructed with any non-negative limits, 0 included
AnyConfigs ==
    [ requests_per_minute : 0..MaxPerMinute,
      requests_per_hour   : 0..MaxPerHour,
      min_delay           : MinDelays ]

InitAny ==
    /\ \E c \in AnyConfigs : LimiterInit(c)
    /\ SyncInit(0)

\* the calls that change the limiter or depend on its state
NextAny ==
    \/ wait
    \/ record_success
    \/ record_error

SpecAny == InitAny /\ [][NextAny]_vars

----------------------------------------------------------------------------
(* SpotifyToFlac.process_track_async, one task per track *)

Workers == 0..(tracks - 1)

\* mutant of the semaphore: a slot can be taken at value 0
CanAcquireAtZero(v) == v >= 0

\* asyncio.Semaphore: a slot can be taken while the value is positive
CanAcquire(v) == v > 0

\* the search loop runs again after attempt a
SearchAgain(a) == a + 1 < SearchTries

\* mutant of the download loop: one attempt more
DownloadAgainOnceMore(a) == a < DownloadTries

\* the download loop runs again after attempt a
DownloadAgain(a) == a + 1 < DownloadTries

\* mutant of line 147: no return when the link was not found
EntersDownloadAlways(url) == TRUE

\* line 147: the download phase is entered with this amazon_url
EntersDownload(url) == url

\* the results an external operation can have: ok, or one of the ways bad
\* in which it fails (while the sync has failures left)
Outcomes(bad) == {"ok"} \cup (IF failures < MaxFailures THEN bad ELSE {})

\* failures after an operation with this outcome
Counted(outcome) == IF outcome = "ok" THEN failures ELSE failures + 1

\* line 124: await asyncio.sleep(index * 5) returns, the tasks of lower
\* index first; line 126: the slot is taken at once when one is free
stagger(w) ==
    /\ pc[w] = "stagger"
    /\ \A v \in Workers : v < w => pc[v] # "stagger"
    /\ IF CanAcquire(semaphore)
       THEN /\ semaphore' = semaphore - 1
            /\ holders' = holders \cup {w}
            /\ pc' = [pc EXCEPT ![w] = "new_page"]
       ELSE /\ pc' = [pc EXCEPT ![w] = "acquire"]
            /\ UNCHANGED <<semaphore, holders>>
    /\ UNCHANGED <<limiterVars, tracks, attempt, amazon_url, page, status,
                   searches, downloads, pauses, failures, driver>>

\* line 126: a task waiting in async with semaphore takes a released slot
sem_acquire(w) ==
    /\ pc[w] = "acquire"
    /\ CanAcquire(semaphore)
    /\ semaphore' = semaphore - 1
    /\ holders' = holders \cup {w}
    /\ pc' = [pc EXCEPT ![w] = "new_page"]
    /\ UNCHANGED <<limiterVars, tracks, attempt, amazon_url, page, status,
                   searches, downloads, pauses, failures, driver>>

\* mutant of the try block: the page is created before the try
CaughtAfterNewPage(op) == op \in {"add_init_script", "goto"}

\* lines 129-175: the awaited calls that sit inside try ... except Exception
Caught(op) == op \in {"new_page", "add_init_script", "goto"}

\* where a task goes when op raises: to the except and finally clauses, or
\* out of the coroutine with the exception
Raised(op) == IF Caught(op) THEN "finally" ELSE "raised"

\* what the task has printed once op raised (line 175)
RaisedStatus(op, st) == IF Caught(op) THEN "worker_error" ELSE st

\* the value of the semaphore once op raised: an exception that leaves the
\* coroutine leaves async with semaphore, which releases the slot
RaisedSlots(op, v) == IF Caught(op) THEN v ELSE v + 1

\* the tasks inside async with semaphore once task w's op raised
RaisedHolders(op, w, h) == IF Caught(op) THEN h ELSE h \ {w}

\* lines 130-132: context.new_page() and page.add_init_script(), either of
\* which may raise
new_page(w) ==
    /\ pc[w] = "new_page"
    /\ \E outcome \in Outcomes({"new_page_raises", "init_script_raises"}) :
         LET op == IF outcome = "new_page_raises" THEN "new_page"
                   ELSE "add_init_script"
         IN
         /\ failures' = Counted(outcome)
         /\ page' = [page EXCEPT ![w] = (outcome # "new_page_raises")]
         /\ IF outcome = "ok"
            THEN /\ pc' = [pc EXCEPT ![w] = "search"]
                 /\ UNCHANGED <<status, semaphore, holders>>
            ELSE /\ pc' = [pc EXCEPT ![w] = Raised(op)]
                 /\ status' = [status EXCEPT ![w] = RaisedStatus(op, @)]
                 /\ semaphore' = RaisedSlots(op, semaphore)
                 /\ holders' = RaisedHolders(op, w, holders)
    /\ attempt' = [attempt EXCEPT ![w] = 0]
    /\ UNCHANGED <<limiterVars, tracks, amazon_url, searches, downloads,
                   pauses, driver>>

\* lines 142-144: one get_direct_amazon_link_async call (it returns None on
\* every exception)
search(w) ==
    /\ pc[w] = "search"
    /\ \E outcome \in Outcomes({"none"}) : LET found == (outcome = "ok") IN
         /\ failures' = Counted(outcome)
         /\ amazon_url' = [amazon_url EXCEPT ![w] = found]
         /\ searches' = [searches EXCEPT ![w] = Append(@, found)]
         /\ pc' = [pc EXCEPT ![w] = IF found THEN "download"
                                    ELSE "search_sleep"]
         /\ attempt' = [attempt EXCEPT ![w] = IF found THEN 0 ELSE @]
    /\ UNCHANGED <<limiterVars, tracks, semaphore, page, status, downloads,
                   pauses,
                   holders, driver>>

\* line 145: asyncio.sleep(2) returns; next attempt, or lines 147-149
search_sleep(w) ==
    /\ pc[w] = "search_sleep"
    /\ pauses' = [pauses EXCEPT ![w].search = @ + 1]
    /\ IF SearchAgain(attempt[w])
       THEN /\ attempt' = [attempt EXCEPT ![w] = @ + 1]
            /\ pc' = [pc EXCEPT ![w] = "search"]
            /\ UNCHANGED status
       ELSE IF EntersDownload(amazon_url[w])
       THEN /\ attempt' = [attempt EXCEPT ![w] = 0]
            /\ pc' = [pc EXCEPT ![w] = "download"]
            /\ UNCHANGED status
       ELSE /\ status' = [status EXCEPT ![w] = "skipped"]
            /\ pc' = [pc EXCEPT ![w] = "finally"]
            /\ UNCHANGED attempt
    /\ UNCHANGED <<limiterVars, tracks, semaphore, amazon_url, page, searches,
                   downloads, failures,
                   holders, driver>>

\* lines 160-166: one LucidaClient.download_track call (it returns a failure
\* dict on every exception); lucida_client.py never calls _rate_limit,
\* record_success or record_error, so the limiter is left alone
download(w) ==
    /\ pc[w] = "download"
    /\ \E outcome \in Outcomes({"error"}) : LET success == (outcome = "ok") IN
         /\ failures' = Counted(outcome)
         /\ downloads' = [downloads EXCEPT ![w] = Append(@, success)]
         /\ pc' = [pc EXCEPT ![w] = IF success THEN "finally"
                                    ELSE "goto_blank"]
         /\ status' = [status EXCEPT ![w] = IF success THEN "completed"
                                            ELSE @]
    /\ UNCHANGED <<limiterVars, tracks, semaphore, attempt, amazon_url, page,
                   searches, pauses,
                   holders, driver>>

\* line 168: page.goto("about:blank"), which may raise
goto_blank(w) ==
    /\ pc[w] = "goto_blank"
    /\ \E outcome \in Outcomes({"raises"}) :
         /\ failures' = Counted(outcome)
         /\ IF outcome = "ok"
            THEN /\ pc' = [pc EXCEPT ![w] = "download_sleep"]
                 /\ UNCHANGED <<status, semaphore, holders>>
            ELSE /\ pc' = [pc EXCEPT ![w] = Raised("goto")]
                 /\ status' = [status EXCEPT ![w] = RaisedStatus("goto", @)]
                 /\ semaphore' = RaisedSlots("goto", semaphore)
                 /\ holders' = RaisedHolders("goto", w, holders)
    /\ UNCHANGED <<limiterVars, tracks, attempt, amazon_url, page, searches,
                   downloads, pauses, driver>>

\* line 169: asyncio.sleep(2) returns; next attempt, or lines 171-172
download_sleep(w) ==
    /\ pc[w] = "download_sleep"
    /\ pauses' = [pauses EXCEPT ![w].download = @ + 1]
    /\ IF DownloadAgain(attempt[w])
       THEN /\ attempt' = [attempt EXCEPT ![w] = @ + 1]
            /\ pc' = [pc EXCEPT ![w] = "download"]
            /\ UNCHANGED status
       ELSE /\ status' = [status EXCEPT ![w] = "permanent_failure"]
            /\ pc' = [pc EXCEPT ![w] = "finally"]
            /\ UNCHANGED attempt
    /\ UNCHANGED <<limiterVars, tracks, semaphore, amazon_url, page, searches,
                   downloads, failures,
                   holders, driver>>

\* mutant of async with: leaving the block gives no slot back
ReleaseNone(v) == v

\* line 126: leaving async with semaphore releases the slot
Release(v) == v + 1

\* lines 176-181: page.close() if there is a page (its exception is
\* swallowed), then the semaphore is released; the coroutine returns, its
\* locals are gone and the record of its attempts is dropped
finally(w) ==
    /\ pc[w] = "finally"
    /\ \E outcome \in (IF page[w] THEN Outcomes({"raises"}) ELSE {"ok"}) :
         /\ failures' = Counted(outcome)
         /\ page' = [page EXCEPT ![w] = @ /\ outcome # "ok"]
    /\ semaphore' = Release(semaphore)
    /\ holders' = holders \ {w}
    /\ pc' = [pc EXCEPT ![w] = "done"]
    /\ attempt' = [attempt EXCEPT ![w] = 0]
    /\ amazon_url' = [amazon_url EXCEPT ![w] = FALSE]
    /\ searches' = [searches EXCEPT ![w] = << >>]
    /\ downloads' = [downloads EXCEPT ![w] = << >>]
    /\ pauses' = [pauses EXCEPT ![w] = [search |-> 0, download |-> 0]]
    /\ UNCHANGED <<limiterVars, tracks, status, driver>>

\* sync_playlist_async with the default LucidaClient of SpotifyToFlac
InitSync ==
    /\ LimiterInit([requests_per_minute |-> DefaultPerMinute,
                    requests_per_hour |-> DefaultPerHour,
                    min_delay |-> ClientMinDelay])
    /\ \E n \in 1..MaxTracks : SyncInit(n)

\* line 217: await asyncio.gather(*tasks) returns when every task has
\* returned, or raises the first exception a task ended with; lines 219-220
\* follow a return
gather ==
    /\ driver = "gathering"
    /\ \/ \E w \in Workers : pc[w] = "raised"
       \/ \A w \in Workers : pc[w] = "done"
    /\ driver' = IF \E w \in Workers : pc[w] = "raised" THEN "aborted"
                 ELSE "complete"
    /\ UNCHANGED <<limiterVars, tracks, semaphore, pc, attempt, amazon_url,
                   page, status, searches, downloads, pauses, failures,
                   holders>>

NextSync ==
    \/ \E w \in Workers : stagger(w)
    \/ \E w \in Workers : sem_acquire(w)
    \/ \E w \in Workers : new_page(w)
    \/ \E w \in Workers : search(w)
    \/ \E w \in Workers : search_sleep(w)
    \/ \E w \in Workers : download(w)
    \/ \E w \in Workers : goto_blank(w)
    \/ \E w \in Workers : download_sleep(w)
    \/ \E w \in Workers : finally(w)
    \/ gather

SpecSync == InitSync /\ [][NextSync]_vars

----------------------------------------------------------------------------
(* Properties of the RateLimiter, checked under Spec *)

\* number of log entries newer than now - window
EntriesSince(window) ==
    Cardinality({i \in 1..Len(rl.request_times) :
                   rl.request_times[i] > now - window})

\* the stages of the last wait() that slept
SleptSpacing == ret[2] > ret[1]
SleptMinute  == ret[3] > ret[2]
SleptHour    == ret[4] > ret[3]
SleptBackoff == ret[5] > ret[4]

\* C1: immediately after wait() returns, at most requests_per_minute log
\* entries are newer than now - 60s.
C1_MinuteWindow ==
    lastOp = "wait" => EntriesSince(60) <= cfg.requests_per_minute

\* a wait() that slept for the per-minute limit and left the window full
C1_Witness ==
    /\ lastOp = "wait"
    /\ SleptMinute
    /\ EntriesSince(60) = cfg.requests_per_minute

\* C2: immediately after wait() returns, at most requests_per_hour log
\* entries are newer than now - 3600s.
C2_HourWindow ==
    lastOp = "wait" => EntriesSince(3600) <= cfg.requests_per_hour

\* a wait() that slept for the per-hour limit and left the hour full
C2_Witness ==
    /\ lastOp = "wait"
    /\ SleptHour
    /\ EntriesSince(3600) = cfg.requests_per_hour
    /\ cfg.requests_per_hour > 1

\* C3: the timestamps recorded by two consecutive wait() calls differ by at
\* least min_delay.
C3_MinSpacing ==
    (lastOp = "wait" /\ Len(pre.request_times) > 0) =>
        rl.last_request_time - pre.last_request_time >= cfg.min_delay

\* a second or later wait() that had to sleep for the spacing
C3_Witness ==
    /\ lastOp = "wait"
    /\ Len(pre.request_times) > 0
    /\ cfg.min_delay > 0
    /\ SleptSpacing
    /\ rl.last_request_time - pre.last_request_time = cfg.min_delay

\* min(min_delay * 2^k, 300)
ExpectedBackoff(k) ==
    IF cfg.min_delay * (2 ^ k) < 300 THEN cfg.min_delay * (2 ^ k) ELSE 300

\* C4: a wait() entered with consecutive_errors = k > 0 sleeps
\* min(min_delay * 2^k, max_backoff) after the spacing and window stages, so
\* it returns at least that much later than the same call would with k = 0.
C4_BackoffWait ==
    (lastOp = "wait" /\ pre.consecutive_errors > 0) =>
        /\ ret[5] - ret[4] >= ExpectedBackoff(pre.consecutive_errors)
        /\ \E ts \in WaitTimes([pre EXCEPT !.consecutive_errors = 0], ret[1]) :
              /\ ts[5] = ts[4]
              /\ ret[5] >= ts[5] + ExpectedBackoff(pre.consecutive_errors)

\* one error, min_delay = 2: 4s of backoff on top of a spacing sleep
C4_Witness ==
    /\ lastOp = "wait"
    /\ pre.consecutive_errors = 1
    /\ cfg.min_delay = 2
    /\ SleptSpacing
    /\ ret[5] - ret[4] = 4

\* number of "error" reports after the last "success" report
RECURSIVE TrailingErrors(_)
TrailingErrors(h) ==
    IF h = << >> THEN 0
    ELSE IF h[Len(h)] = "success" THEN 0
    ELSE 1 + TrailingErrors(SubSeq(h, 1, Len(h) - 1))

\* C5: consecutive_errors is the number of record_error() calls since the
\* most recent record_success() (or since construction), and the next wait()
\* backs off for that number.
C5_ErrorCounter ==
    /\ rl.consecutive_errors = TrailingErrors(reports)
    /\ (lastOp = "wait" /\ TrailingErrors(reports) > 0) =>
          ret[5] - ret[4] >= ExpectedBackoff(TrailingErrors(reports))

\* 2 errors, 1 success, 1 error: the counter is 1 and the backoff that of k = 1
C5_Witness ==
    /\ reports = <<"error", "error", "success", "error">>
    /\ rl.consecutive_errors = 1
    /\ cfg.min_delay = 2
    /\ BackoffSleep(rl) = 4

\* C7: get_stats() leaves the log, the last-request timestamp and the error
\* counter unchanged, so a wait() entered after it has the same outcomes.
C7_StatsFrame ==
    [][lastOp' = "get_stats" =>
         /\ rl'.request_times = rl.request_times
         /\ rl'.last_request_time = rl.last_request_time
         /\ rl'.consecutive_errors = rl.consecutive_errors
         /\ \A d \in Gaps :
              WaitTimes(rl', now' + d) = WaitTimes(rl, now' + d)]_vars

\* a get_stats() over a log with an entry older than an hour, errors pending
C7_Witness ==
    /\ lastOp = "get_stats"
    /\ snapshot.requests_last_hour < snapshot.total_requests
    /\ rl.consecutive_errors > 0

\* the log entries of the limiter as wait() found it that are newer than
\* t - window
PriorSince(t, window) ==
    {i \in 1..Len(pre.request_times) : pre.request_times[i] > t - window}

\* the oldest of the entries PriorSince(t, window)
PriorOldest(t, window) ==
    LET i == CHOOSE k \in PriorSince(t, window) :
                 \A m \in PriorSince(t, window) :
                     pre.request_times[k] <= pre.request_times[m]
    IN  pre.request_times[i]

\* C12: a wait() that finds requests_per_minute entries in the trailing 60s
\* at its per-minute check sleeps 60 - (now - oldest in window) + 1 there
\* (time.sleep may add its lateness), and a wait() called with a full
\* window returns no earlier than 60s after the oldest entry of that window.
C12_FullWindowBlocks ==
    lastOp = "wait" =>
        /\ Cardinality(PriorSince(ret[2], 60)) >= cfg.requests_per_minute =>
              LET wait_time == 60 - (ret[2] - PriorOldest(ret[2], 60)) + 1
              IN  /\ ret[3] - ret[2] >= wait_time
                  /\ ret[3] - ret[2] <= wait_time + 1
                  /\ ret[5] >= PriorOldest(ret[2], 60) + 60
        /\ Cardinality(PriorSince(ret[1], 60)) >= cfg.requests_per_minute =>
              ret[5] >= PriorOldest(ret[1], 60) + 60

\* requests_per_minute = 2, min_delay = 0: the third of three immediate
\* calls returns 60s or more after the first
C12_Witness ==
    /\ lastOp = "wait"
    /\ cfg.requests_per_minute = 2
    /\ cfg.min_delay = 0
    /\ pre.request_times = <<StartTime, StartTime>>
    /\ ret[1] = StartTime
    /\ ret[5] >= StartTime + 60

\* C14: at the instant wait() records the request, min_delay or more has
\* passed since the previous recorded request, fewer than
\* requests_per_minute earlier entries are newer than 60s and fewer than
\* requests_per_hour earlier entries are newer than 3600s, although each
\* check ran once and before the later sleeps.
C14_SinglePass ==
    lastOp = "wait" =>
        /\ rl.last_request_time = ret[5]
        /\ ret[5] - pre.last_request_time >= cfg.min_delay
        /\ Cardinality(PriorSince(ret[5], 60)) < cfg.requests_per_minute
        /\ Cardinality(PriorSince(ret[5], 3600)) < cfg.requests_per_hour

\* a wait() that slept in the spacing, per-minute and per-hour stages
C14_Witness ==
    /\ lastOp = "wait"
    /\ SleptSpacing
    /\ SleptMinute
    /\ SleptHour

\* the sleep_time / wait_time / backoff the last wait() computed per stage
Requested ==
    << SpacingSleep(pre, ret[1]), MinuteSleep(pre, ret[2]),
       HourSleep(pre, ret[3]), BackoffSleep(pre) >>

C16_BoundedLog ==
    /\ Len(rl.request_times) <= cfg.requests_per_hour
    /\ \A i \in 1..(Len(rl.request_times) - 1) :
          rl.request_times[i] <= rl.request_times[i + 1]
    /\ lastOp = "wait" =>
          LET old == pre.request_times
              new == rl.request_times
          IN  IF Len(old) = cfg.requests_per_hour
              THEN /\ Len(new) = Len(old)
                   /\ \A i \in 1..(Len(old) - 1) : new[i] = old[i + 1]
                   /\ new[Len(new)] = ret[5]
              ELSE /\ Len(new) = Len(old) + 1
                   /\ \A i \in 1..Len(old) : new[i] = old[i]
                   /\ new[Len(new)] = ret[5]

\* a wait() on a full log of 3 distinct entries
C16_Witness ==
    /\ lastOp = "wait"
    /\ cfg.requests_per_hour = 3
    /\ Len(pre.request_times) = 3
    /\ pre.request_times[1] < pre.request_times[2]
    /\ pre.request_times[2] < pre.request_times[3]
    /\ rl.request_times[1] = pre.request_times[2]

\* C17: wait() and get_stats() leave consecutive_errors as it is, so a
\* wait() entered with errors pending backs off whether or not an earlier
\* wait() already did.
C17_ErrorsFrame ==
    /\ [][lastOp' \in {"wait", "get_stats"} =>
             rl'.consecutive_errors = rl.consecutive_errors]_vars
    /\ []((lastOp = "wait" /\ pre.consecutive_errors > 0) =>
             /\ rl.consecutive_errors = pre.consecutive_errors
             /\ ret[5] - ret[4] >= ExpectedBackoff(rl.consecutive_errors))

\* min_delay = 2: one error, a wait() that backed off 4s, and a second
\* wait() that backed off again
C17_Witness ==
    /\ lastOp = "wait"
    /\ cfg.min_delay = 2
    /\ reports = <<"error">>
    /\ pre.request_times = <<StartTime + 4>>
    /\ rl.consecutive_errors = 1
    /\ ret[5] - ret[4] = 4

\* C18: record_error() adds exactly 1 to consecutive_errors whatever its
\* value; the backoff wait() computes never exceeds max_backoff, does not
\* decrease with one more error, and is the double of the previous one or
\* max_backoff, whichever is less.
C18_CapAtUse ==
    /\ AfterError(rl).consecutive_errors = rl.consecutive_errors + 1
    /\ Backoff(rl) <= 300
    /\ Backoff(AfterError(rl)) >= Backoff(rl)
    /\ Backoff(AfterError(rl)) =
          (IF 2 * Backoff(rl) < 300 THEN 2 * Backoff(rl) ELSE 300)
    /\ (lastOp = "record_error" /\ Len(reports) > 1
           /\ reports[Len(reports) - 1] = "error") =>
          rl.consecutive_errors >= 2
    /\ (lastOp = "wait" /\ pre.consecutive_errors > 0) =>
          ret[5] - ret[4] <= 300 + 1

\* min_delay = 150: a third error in a row, then a wait() that backs off
\* for the ceiling of 300s and not for 1200s
C18_Witness ==
    /\ lastOp = "wait"
    /\ cfg.min_delay = 150
    /\ reports = <<"error", "error", "error">>
    /\ rl.consecutive_errors = 3
    /\ ret[5] - ret[4] = 300

\* C19: get_stats() returns the number of log entries newer than now - 60s,
\* the number newer than now - 3600s, consecutive_errors and the length of
\* the log; all are non-negative and requests_last_minute <=
\* requests_last_hour <= total_requests <= requests_per_hour.
C19_StatsSnapshot ==
    lastOp = "get_stats" =>
        /\ snapshot.requests_last_minute = EntriesSince(60)
        /\ snapshot.requests_last_hour = EntriesSince(3600)
        /\ snapshot.consecutive_errors = TrailingErrors(reports)
        /\ snapshot.total_requests = Len(rl.request_times)
        /\ 0 <= snapshot.requests_last_minute
        /\ snapshot.requests_last_minute <= snapshot.requests_last_hour
        /\ snapshot.requests_last_hour <= snapshot.total_requests
        /\ snapshot.total_requests <= cfg.requests_per_hour
        /\ snapshot.consecutive_errors >= 0

\* a snapshot in which the three counts differ: more entries kept than lie
\* in the last hour, more of those than lie in the last minute
C19_Witness ==
    /\ lastOp = "get_stats"
    /\ snapshot.requests_last_minute < snapshot.requests_last_hour
    /\ snapshot.requests_last_hour < snapshot.total_requests
    /\ snapshot.requests_last_minute > 0

\* timestamps ever recorded that are newer than now - window
AdmittedSince(window) ==
    Cardinality({i \in 1..Len(admitted) : admitted[i] > now - window})

\* C20: the entry a wait() evicts from a full log is 3600s old or older when
\* the new request is recorded, so at every moment the requests recorded in
\* the trailing 3600s, evicted ones included, number at most
\* requests_per_hour.
C20_EvictionSafe ==
    /\ (lastOp = "wait" /\ Len(pre.request_times) = cfg.requests_per_hour) =>
          pre.request_times[1] <= ret[5] - 3600
    /\ AdmittedSince(3600) <= cfg.requests_per_hour
    /\ AdmittedSince(3600) = EntriesSince(3600)

\* a wait() that had to sleep for the per-hour limit before evicting, with
\* more requests recorded than the log holds
C20_Witness ==
    /\ lastOp = "wait"
    /\ Len(pre.request_times) = cfg.requests_per_hour
    /\ cfg.requests_per_hour > 1
    /\ SleptHour
    /\ Len(admitted) > Len(rl.request_times)
    /\ AdmittedSince(3600) = cfg.requests_per_hour

\* the limiter as it would be with k consecutive errors
WithErrors(r, k) == [r EXCEPT !.consecutive_errors = k]

\* C22: a limiter constructed with min_delay = 0 computes a backoff of 0 for
\* every number of consecutive errors, and a wait() entered after errors
\* sleeps no backoff and returns at the times the same call can return at
\* with no error reported.
C22_ZeroDelayNoBackoff ==
    cfg.min_delay = 0 =>
        /\ \A k \in 0..(MaxCalls + 1) :
              /\ Backoff(WithErrors(rl, k)) = 0
              /\ BackoffSleep(WithErrors(rl, k)) = 0
        /\ (lastOp = "wait" /\ pre.consecutive_errors > 0) =>
              /\ Requested[4] = 0
              /\ ret[5] = ret[4]
              /\ WaitTimes(pre, ret[1]) = WaitTimes(WithErrors(pre, 0), ret[1])
              /\ ret \in WaitTimes(WithErrors(pre, 0), ret[1])

\* min_delay = 0: a wait() after two errors in a row that still sleeps for
\* a full minute window
C22_Witness ==
    /\ lastOp = "wait"
    /\ cfg.min_delay = 0
    /\ pre.consecutive_errors = 2
    /\ SleptMinute
    /\ ret[5] = ret[4]

----------------------------------------------------------------------------
(* Properties of the workers, checked under SpecSync *)

\* C6: every download_track attempt of a worker is preceded by a wait() on
\* the client's rate limiter and followed by record_success() or
\* record_error().
C6_GovernorCalled ==
    \A w \in Workers :
        /\ Len(downloads[w]) > 0 => lastOp # "init"
        /\ Len(downloads[w]) <= calls
        /\ pc[w] \in {"finally", "done"} => Len(downloads[w]) <= Len(reports)

\* C8: at most 3 workers are inside the semaphore-guarded section, and a
\* worker in its staggered start delay holds no slot.
C8_BoundedPool ==
    /\ Cardinality(holders) <= 3
    /\ Cardinality({w \in Workers : page[w] /\ pc[w] # "done"}) <= 3
    /\ \A w \in Workers : pc[w] \in {"stagger", "acquire"} => w \notin holders
    /\ \A w \in Workers :
          pc[w] \in {"new_page", "search", "search_sleep", "download",
                     "goto_blank", "download_sleep", "finally"} => w \in holders

\* three workers searching or downloading while another waits for a slot
C8_Witness ==
    /\ Cardinality(holders) = 3
    /\ \E w \in Workers : pc[w] = "acquire"
    /\ \A w \in holders : pc[w] \in {"search", "download"}

\* all but the last element of a sequence of results are failures
OnlyLastSucceeds(results) ==
    \A i \in 1..(Len(results) - 1) : ~results[i]

\* C9: a worker makes at most 3 search and at most 2 download attempts, no
\* attempt of a phase follows a success of that phase, and every attempt
\* after the first follows a pause of its own.
C9_BoundedRetries ==
    \A w \in Workers :
        /\ Len(searches[w]) <= 3
        /\ Len(downloads[w]) <= 2
        /\ OnlyLastSucceeds(searches[w])
        /\ OnlyLastSucceeds(downloads[w])
        /\ Len(searches[w]) <= pauses[w].search + 1
        /\ Len(downloads[w]) <= pauses[w].download + 1

\* a worker whose third search succeeded and that downloaded twice
C9_Witness ==
    \E w \in Workers :
        /\ searches[w] = <<FALSE, FALSE, TRUE>>
        /\ pauses[w].search = 2
        /\ Len(downloads[w]) = 2
        /\ pauses[w].download = 1

\* C10: a worker attempts a download only after one of its searches
\* succeeded; after 3 failed searches it ends as skipped with no download.
C10_ResolveFirst ==
    \A w \in Workers :
        /\ Len(downloads[w]) > 0 =>
              \E i \in 1..Len(searches[w]) : searches[w][i]
        /\ (searches[w] = <<FALSE, FALSE, FALSE>> /\ pauses[w].search = 3) =>
              /\ pc[w] \in {"finally", "done"}
              /\ status[w] = "skipped"
              /\ downloads[w] = << >>

\* a worker at its end after three failed searches
C10_Witness ==
    \E w \in Workers :
        /\ pc[w] = "finally"
        /\ searches[w] = <<FALSE, FALSE, FALSE>>
        /\ status[w] = "skipped"

\* what a task prints last about its track (lines 148, 162, 172, 175)
Terminal == {"completed", "skipped", "permanent_failure", "worker_error"}

\* no exception leaves a task, gather does not raise, and the sync is
\* complete only with every task returned and every track reported
C11_Safe ==
    /\ driver # "aborted"
    /\ \A w \in Workers : pc[w] # "raised"
    /\ \A w \in Workers : pc[w] = "done" => status[w] \in Terminal
    /\ \A w \in Workers : status[w] \in Terminal => pc[w] \in {"finally", "done"}
    /\ driver = "complete" => \A w \in Workers : pc[w] = "done"

\* steps a task at position p in attempt a can still take at most
TaskRank(p, a) ==
    CASE p = "stagger"        -> 18
      [] p = "acquire"        -> 17
      [] p = "new_page"       -> 16
      [] p = "search"         -> 9 + 2 * (3 - a)
      [] p = "search_sleep"   -> 8 + 2 * (3 - a)
      [] p = "download"       -> 2 + 3 * (2 - a)
      [] p = "goto_blank"     -> 1 + 3 * (2 - a)
      [] p = "download_sleep" -> 3 * (2 - a)
      [] p = "finally"        -> 1
      [] OTHER                -> 0

\* steps the gather in state d can still take at most
DriverRank(d) == IF d = "gathering" THEN 1 ELSE 0

\* task w is where it was
Stays(w) == pc'[w] = pc[w] /\ attempt'[w] = attempt[w]

\* task w has moved, and has fewer steps to take than it had and not
\* fewer than none
Nearer(w) ==
    /\ ~Stays(w)
    /\ LET after == TaskRank(pc'[w], attempt'[w])
       IN  after >= 0 /\ after < TaskRank(pc[w], attempt[w])

\* a step after which no task and not the gather has more steps to take,
\* and one of them has fewer: the steps the sync can still take, summed
\* over the tasks and the gather, go down and stay non-negative
RankDown ==
    IF driver' = driver
    THEN \E w \in Workers :
            /\ Nearer(w)
            /\ \A v \in Workers : v = w \/ Stays(v)
    ELSE /\ DriverRank(driver') < DriverRank(driver)
         /\ \A v \in Workers : Stays(v)

\* C11: whichever tracks fail (retries exhausted or an exception raised in
\* a worker), no exception reaches gather, every task returns with its
\* track reported, and the sync of the playlist completes: until it is
\* complete some task or the gather can take a step, and every step brings
\* the sync nearer to its end.
C11_FailuresNonFatal ==
    /\ []C11_Safe
    /\ [](driver # "complete" => ENABLED NextSync)
    /\ [][RankDown]_vars

\* a completed sync in which one worker raised, one failed its downloads
\* for good and one downloaded its track
C11_Witness ==
    /\ driver = "complete"
    /\ \E w \in Workers : status[w] = "worker_error"
    /\ \E w \in Workers : status[w] = "permanent_failure"
    /\ \E w \in Workers : status[w] = "completed"

\* the tasks waiting in async with semaphore
Queued == {w \in Workers : pc[w] = "acquire"}

\* some step of task w can be taken
CanStep(w) ==
    \/ ENABLED new_page(w)
    \/ ENABLED search(w)
    \/ ENABLED search_sleep(w)
    \/ ENABLED download(w)
    \/ ENABLED goto_blank(w)
    \/ ENABLED download_sleep(w)
    \/ ENABLED finally(w)

\* the slots and the pages are accounted for: the semaphore counts the
\* slots not held, only tasks between acquire and return hold one, a task
\* outside the block has no page, and once every task has returned all
\* slots are free
C21_Accounted ==
    /\ semaphore = Slots - Cardinality(holders)
    /\ semaphore >= 0
    /\ \A w \in Workers :
          /\ pc[w] \in {"stagger", "acquire", "done"} => w \notin holders
          /\ pc[w] \in {"stagger", "acquire"} => ~page[w]
    /\ (\A w \in Workers : pc[w] = "done") => semaphore = Slots

\* a queued task can take a slot, or all slots are held by tasks that can
\* each take a step
C21_QueueMoves ==
    \A w \in Queued :
        \/ ENABLED sem_acquire(w)
        \/ /\ Cardinality(holders) = Slots
           /\ \A h \in holders : CanStep(h)

\* a step in which task w leaves the block: from the finally clause, on
\* whichever path it got there
Leaves(w) == pc[w] \in {"new_page", "search", "search_sleep", "download",
                        "goto_blank", "download_sleep", "finally"}
             /\ pc'[w] \in {"done", "raised"}

\* the step that ends a task's block gives its slot back and closes its
\* page, unless page.close() itself raised (which the code swallows); every
\* other step of a holder brings it nearer to that step
C21_ReleaseStep ==
    \A w \in Workers :
        /\ Leaves(w) =>
              /\ pc[w] = "finally"
              /\ status[w] \in Terminal
              /\ w \in holders /\ w \notin holders'
              /\ semaphore' = semaphore + 1
              /\ page'[w] => page[w] /\ failures' = failures + 1
        /\ (w \in holders /\ ~Stays(w)) => Nearer(w)

\* C21: every worker that takes a slot gives it back and closes its page on
\* every path out of the block (completed, skipped, permanent failure,
\* worker error), so that all slots are free once all workers have
\* returned, and every queued worker gets a slot: while it waits a slot is
\* free or every holder can step, and each holder's steps to its release
\* are bounded.
C21_ReleaseOnEveryPath ==
    /\ []C21_Accounted
    /\ []C21_QueueMoves
    /\ [][C21_ReleaseStep]_vars

\* a sync of more tracks than slots is complete with all slots free and no
\* page open, tasks having left after a download, after a permanent
\* failure and through the except clause
C21_Witness ==
    /\ driver = "complete"
    /\ tracks > Slots
    /\ semaphore = Slots
    /\ \A w \in Workers : ~page[w]
    /\ \A st \in {"completed", "permanent_failure", "worker_error"} :
          \E w \in Workers : status[w] = st

----------------------------------------------------------------------------
(* Properties of coroutines sharing the limiter, checked under SpecShared *)

\* the coroutines that are inside wait()
InsideWait ==
    {c \in Callers : wpc[c] \in {"spacing", "minute", "hour", "backoff",
                                  "record"}}

\* C13: with several coroutines of one event loop on one limiter, a wait()
\* runs from its first check to its record without another coroutine
\* entering wait() or reporting in between, and the per-minute, per-hour
\* and spacing bounds hold for the requests of all coroutines together.
C13_AtomicWait ==
    /\ Cardinality(InsideWait) <= 1
    /\ \A c \in InsideWait : running = c /\ rl = pre
    /\ C1_MinuteWindow
    /\ C2_HourWindow
    /\ \A i \in 1..(Len(admitted) - 1) :
          admitted[i + 1] - admitted[i] >= cfg.min_delay
    /\ AdmittedSince(60) <= cfg.requests_per_minute
    /\ AdmittedSince(3600) <= cfg.requests_per_hour

\* one coroutine is in wait(), after a sleep, while the other has its
\* request under way
C13_Witness ==
    \E c \in Callers : \E o \in Callers \ {c} :
        /\ wpc[c] = "record"
        /\ wpc[o] = "request"
        /\ ret[5] > ret[1]
        /\ Len(admitted) > 0

====
